---- MODULE Spec2Model ----
(***************************************************************************)
(* A model of go-tftp: the wire packet codec (tftp/operations.go) and the  *)
(* server accept loop (tftp/server.go).                                    *)
(*                                                                         *)
(* Byte strings are sequences of numbers 0..255.  Values handed to         *)
(* encoding/binary are records [type, val] that carry their Go dynamic     *)
(* type, because binary.Write and binary.Read succeed or fail on the type. *)
(***************************************************************************)
EXTENDS Integers, Sequences, FiniteSets, TLC

(***************************************************************************)
(* Program constants                                                       *)
(***************************************************************************)
DatagramSize == 516
BlockSize == DatagramSize - 4

OpRRQ == 1
OpWRQ == 2
OpData == 3
OpAck == 4
OpErr == 5

ErrUnknown == 0
ErrNotFound == 1
ErrAccessViolation == 2
ErrDiskFull == 3
ErrIllegalOp == 4
ErrUnknownID == 5
ErrFileExists == 6
ErrNoUser == 7

ErrCodes == ErrUnknown .. ErrNoUser

Uint16Mod == 65536

(***************************************************************************)
(* Bounds of the model                                                     *)
(***************************************************************************)
\* datagrams the listening socket receives in one run
MaxDatagrams == 2
\* bytes a payload source may hold beyond one full block
MaxExtra == 1

(***************************************************************************)
(* Strings used as inputs                                                  *)
(***************************************************************************)
StrA == <<97>>
StrATxt == <<97, 46, 116, 120, 116>>
StrMissingTxt == <<109, 105, 115, 115, 105, 110, 103, 46, 116, 120, 116>>
StrOctet == <<111, 99, 116, 101, 116>>
StrNetascii == <<110, 101, 116, 97, 115, 99, 105, 105>>
StrMail == <<109, 97, 105, 108>>
StrNo == <<110, 111>>

\* n payload bytes, none of them NUL
Pattern(n) == [i \in 1 .. n |-> (i % 251) + 1]

Min(a, b) == IF a < b THEN a ELSE b

\* p[from:] of Go, from counted from 0
SliceFrom(p, from) == SubSeq(p, from + 1, Len(p))

(***************************************************************************)
(* encoding/binary as the codec uses it                                    *)
(***************************************************************************)
\* an untyped integer constant passed as `any` has dynamic type int
Untyped(c) == [type |-> "int", val |-> c]

Typed(t, v) == [type |-> t, val |-> v]

\* encoding/binary's size of a type: only fixed-size kinds have one
SizeOf(t) ==
  CASE t \in {"uint16", "OpCode", "ErrCode", "Ack"} -> 2
    [] OTHER -> 0 - 1

BigEndian16(v) == <<(v \div 256) % 256, v % 256>>

FromBigEndian16(p) == p[1] * 256 + p[2]

\* binary.Write(b, binary.BigEndian, data)
BinaryWrite(b, data) ==
  IF SizeOf(data.type) < 0
    THEN [buf |-> b, err |-> TRUE]
    ELSE [buf |-> b \o BigEndian16(data.val), err |-> FALSE]

\* binary.Read(r, binary.BigEndian, &target): r holds the bytes rest, old is
\* the target's value before the call
BinaryRead(rest, t, old) ==
  IF SizeOf(t) < 0
    THEN [val |-> old, rest |-> rest, err |-> TRUE]
    ELSE IF Len(rest) < 2
      THEN [val |-> old, rest |-> <<>>, err |-> TRUE]
      ELSE [val |-> FromBigEndian16(rest), rest |-> SliceFrom(rest, 2),
            err |-> FALSE]

(***************************************************************************)
(* bytes.Split(p, []byte{0})                                               *)
(***************************************************************************)
RECURSIVE SplitRange(_, _, _)
\* the tokens of p[lo..hi] (indices from 1), by halves: the last token of
\* the left half and the first of the right half are one token
SplitRange(p, lo, hi) ==
  IF lo > hi THEN <<<<>>>>
  ELSE IF lo = hi THEN (IF p[lo] = 0 THEN <<<<>>, <<>>>> ELSE <<<<p[lo]>>>>)
  ELSE LET mid == (lo + hi) \div 2
           l == SplitRange(p, lo, mid)
           r == SplitRange(p, mid + 1, hi)
       IN SubSeq(l, 1, Len(l) - 1) \o <<l[Len(l)] \o r[1]>> \o Tail(r)

SplitNul(p) == SplitRange(p, 1, Len(p))

(***************************************************************************)
(* Packets.  A packet value is a record with a kind.                       *)
(***************************************************************************)
NoOptions == <<>>

ReadReq(f, m) == [kind |-> "RRQ", Filename |-> f, Mode |-> m,
                  Options |-> NoOptions]

Data(b, pl) == [kind |-> "DATA", Block |-> b, Payload |-> pl]

Ack(b) == [kind |-> "ACK", Block |-> b]

Err(c, m) == [kind |-> "ERR", Error |-> c, Message |-> m]

Failed == [bytes |-> <<>>, err |-> TRUE]

\* (q *ReadReq) MarshalBinary
ReadReqMarshalBinary(q) ==
  LET mode == IF q.Mode # <<>> THEN q.Mode ELSE StrOctet
      w == BinaryWrite(<<>>, Untyped(OpRRQ))
  IN IF w.err THEN Failed
     ELSE [bytes |-> w.buf \o q.Filename \o <<0>> \o mode \o <<0>>,
           err |-> FALSE]

RECURSIVE OptionPairs(_, _, _)
\* the loop for i := 2; i+1 < len(s); i += 2 over the pairs lo..hi, pair k
\* being s[2k], s[2k+1] of Go; a later pair overwrites an earlier one
OptionPairs(s, lo, hi) ==
  IF lo > hi THEN <<>>
  ELSE IF lo = hi THEN s[2 * lo + 1] :> s[2 * lo + 2]
  ELSE LET mid == (lo + hi) \div 2
       IN OptionPairs(s, mid + 1, hi) @@ OptionPairs(s, lo, mid)

\* ReadReq.UnmarshalBinary splitting p instead of p[2:]
ReadReqUnmarshalWithOpcode(q, p) ==
  LET s == SplitNul(p)
  IN IF Len(s) < 2 THEN [value |-> q, err |-> TRUE]
     ELSE [value |-> [q EXCEPT !.Filename = s[1], !.Mode = s[2]],
           err |-> FALSE]

\* (q *ReadReq) UnmarshalBinary: q after the call, and the error
ReadReqUnmarshalBinary(q, p) ==
  LET s == SplitNul(SliceFrom(p, 2))
  IN IF Len(s) < 2 THEN [value |-> q, err |-> TRUE]
     ELSE LET q1 == [q EXCEPT !.Filename = s[1], !.Mode = s[2]]
          IN IF Len(s) < 4 THEN [value |-> q1, err |-> FALSE]
             ELSE [value |-> [q1 EXCEPT !.Options =
                                   OptionPairs(s, 1, (Len(s) \div 2) - 1)],
                   err |-> FALSE]

\* Data.MarshalBinary writing the block number before incrementing it
DataMarshalPostIncrement(d) ==
  LET block == (d.Block + 1) % Uint16Mod
      w1 == BinaryWrite(<<>>, Typed("uint16", OpData))
      w2 == BinaryWrite(w1.buf, Typed("uint16", d.Block))
      n == Min(Len(d.Payload), BlockSize)
  IN [bytes |-> w2.buf \o SubSeq(d.Payload, 1, n), err |-> FALSE,
      value |-> [d EXCEPT !.Block = block,
                          !.Payload = SliceFrom(d.Payload, n)]]

\* Data.MarshalBinary copying up to DatagramSize bytes of payload
DataMarshalWholeDatagram(d) ==
  LET block == (d.Block + 1) % Uint16Mod
      w1 == BinaryWrite(<<>>, Typed("uint16", OpData))
      w2 == BinaryWrite(w1.buf, Typed("uint16", block))
      n == Min(Len(d.Payload), DatagramSize)
  IN [bytes |-> w2.buf \o SubSeq(d.Payload, 1, n), err |-> FALSE,
      value |-> [d EXCEPT !.Block = block,
                          !.Payload = SliceFrom(d.Payload, n)]]

\* (d *Data) MarshalBinary: the bytes, the error and d after the call
DataMarshalBinary(d) ==
  LET block == (d.Block + 1) % Uint16Mod
      w1 == BinaryWrite(<<>>, Typed("uint16", OpData))
      w2 == BinaryWrite(w1.buf, Typed("uint16", block))
      n == Min(Len(d.Payload), BlockSize)
  IN [bytes |-> w2.buf \o SubSeq(d.Payload, 1, n), err |-> FALSE,
      value |-> [d EXCEPT !.Block = block,
                          !.Payload = SliceFrom(d.Payload, n)]]

\* (d *Data) UnmarshalBinary: the opcode is read into a variable of type any
DataUnmarshalBinary(d, p) ==
  IF Len(p) < 4 \/ Len(p) > DatagramSize THEN [value |-> d, err |-> TRUE]
  ELSE LET r1 == BinaryRead(SubSeq(p, 1, 2), "any", 0)
       IN IF r1.err \/ r1.val # OpData THEN [value |-> d, err |-> TRUE]
          ELSE LET r2 == BinaryRead(SubSeq(p, 3, 4), "uint16", d.Block)
               IN IF r2.err THEN [value |-> d, err |-> TRUE]
                  ELSE [value |-> [d EXCEPT !.Block = r2.val,
                                            !.Payload = SliceFrom(p, 4)],
                        err |-> FALSE]

\* (a *Ack) MarshalBinary: the second write is handed &a, a **Ack
AckMarshalBinary(a) ==
  LET w1 == BinaryWrite(<<>>, Untyped(OpAck))
  IN IF w1.err THEN Failed
     ELSE LET w2 == BinaryWrite(w1.buf, Typed("**Ack", a.Block))
          IN IF w2.err THEN Failed
             ELSE [bytes |-> w2.buf, err |-> FALSE]

\* Ack.UnmarshalBinary without the test of the opcode
AckUnmarshalAnyOpcode(a, p) ==
  LET r1 == BinaryRead(p, "OpCode", 0)
  IN IF r1.err THEN [value |-> a, err |-> TRUE]
     ELSE LET r2 == BinaryRead(r1.rest, "Ack", a.Block)
          IN [value |-> [a EXCEPT !.Block = r2.val], err |-> r2.err]

\* (a *Ack) UnmarshalBinary
AckUnmarshalBinary(a, p) ==
  LET r1 == BinaryRead(p, "OpCode", 0)
  IN IF r1.err THEN [value |-> a, err |-> TRUE]
     ELSE IF r1.val # OpAck THEN [value |-> a, err |-> TRUE]
     ELSE LET r2 == BinaryRead(r1.rest, "Ack", a.Block)
          IN [value |-> [a EXCEPT !.Block = r2.val], err |-> r2.err]

\* (e Err) MarshalBinary
ErrMarshalBinary(e) ==
  LET w1 == BinaryWrite(<<>>, Untyped(OpErr))
  IN IF w1.err THEN Failed
     ELSE LET w2 == BinaryWrite(w1.buf, Typed("ErrCode", e.Error))
          IN IF w2.err THEN Failed
             ELSE [bytes |-> w2.buf \o e.Message \o <<0>>, err |-> FALSE]

RECURSIVE TrimRightNul(_)
\* strings.TrimRight(s, "\x00")
TrimRightNul(s) ==
  IF s # <<>> /\ s[Len(s)] = 0 THEN TrimRightNul(SubSeq(s, 1, Len(s) - 1))
  ELSE s

\* r.ReadString(0): the bytes up to and including the first NUL, an error
\* when there is none
ReadStringNul(rest) ==
  LET s == SplitNul(rest)
  IN IF Len(s) < 2 THEN [str |-> rest, err |-> TRUE]
     ELSE [str |-> Append(s[1], 0), err |-> FALSE]

\* (e Err) UnmarshalBinary: the receiver is a copy, so the caller's value
\* stays as it was; local is what the copy holds at return
ErrUnmarshalBinary(e, p) ==
  LET r1 == BinaryRead(p, "OpCode", 0)
  IN IF r1.err THEN [value |-> e, local |-> e, err |-> TRUE]
     ELSE IF r1.val # OpErr THEN [value |-> e, local |-> e, err |-> TRUE]
     ELSE LET r2 == BinaryRead(r1.rest, "ErrCode", e.Error)
          IN IF r2.err
               THEN [value |-> e, local |-> [e EXCEPT !.Error = r2.val],
                     err |-> TRUE]
               ELSE LET m == ReadStringNul(r2.rest)
                    IN [value |-> e,
                        local |-> [e EXCEPT !.Error = r2.val,
                                            !.Message = TrimRightNul(m.str)],
                        err |-> m.err]

\* MarshalBinary of the packet's kind
MarshalBinary(p) ==
  CASE p.kind = "RRQ" -> ReadReqMarshalBinary(p)
    [] p.kind = "DATA" -> DataMarshalBinary(p)
    [] p.kind = "ACK" -> AckMarshalBinary(p)
    [] p.kind = "ERR" -> ErrMarshalBinary(p)

\* the zero value of a kind, on which the caller decodes
ZeroValue(kind) ==
  CASE kind = "RRQ" -> ReadReq(<<>>, <<>>)
    [] kind = "DATA" -> Data(0, <<>>)
    [] kind = "ACK" -> Ack(0)
    [] kind = "ERR" -> Err(0, <<>>)

\* UnmarshalBinary of the kind, on the receiver v
UnmarshalBinary(v, p) ==
  CASE v.kind = "RRQ" -> ReadReqUnmarshalBinary(v, p)
    [] v.kind = "DATA" -> DataUnmarshalBinary(v, p)
    [] v.kind = "ACK" -> AckUnmarshalBinary(v, p)
    [] v.kind = "ERR" -> ErrUnmarshalBinary(v, p)

(***************************************************************************)
(* The environment: clients, datagrams and the read capability             *)
(***************************************************************************)
StrBig == <<98, 105, 103>>

Addrs == {"c1", "c2"}

\* the wire form of a read request as a client sends it
RRQBytes(f, m) == <<0, OpRRQ>> \o f \o <<0>> \o m \o <<0>>

\* a read request that fills the whole receive buffer and holds no NUL
RRQNoNul == <<0, OpRRQ>> \o Pattern(DatagramSize - 2)

UnknownOpcode == <<0, 9>>

AckBytes(b) == <<0, OpAck>> \o BigEndian16(b)

\* a write request, a Data packet and an Error packet as a client sends them
WRQDatagram == <<0, OpWRQ>> \o StrATxt \o <<0>> \o StrOctet \o <<0>>

DataDatagram == <<0, OpData>> \o BigEndian16(1) \o <<7>>

ErrDatagram == <<0, OpErr>> \o BigEndian16(ErrNotFound) \o <<0>>

Datagrams ==
  {RRQBytes(StrATxt, StrOctet), RRQBytes(StrMissingTxt, StrOctet),
   RRQBytes(StrBig, StrOctet), RRQNoNul, UnknownOpcode, AckBytes(1),
   WRQDatagram, DataDatagram, ErrDatagram}

\* the bytes the read capability supplies for a file name; -1: not found
FileSize(f) ==
  CASE f = StrATxt -> 1000
    [] f = StrBig -> 3 * BlockSize
    [] OTHER -> 0 - 1

\* what the read handler returns for a file name
HandlerResult(f) == IF FileSize(f) < 0 THEN "notfound" ELSE "nil"

(***************************************************************************)
(* State                                                                   *)
(***************************************************************************)
VARIABLES
  \* codec: the packet to encode, the result of MarshalBinary, the result
  \* of UnmarshalBinary on a zero value, and the stage reached
  pkt, wire, decoded, cpc,
  \* repeated encoding: the Data value the calls are made on, that value
  \* before the first call, and the packets the calls have returned
  data, origin, emitted,
  \* ServerOptions.readHandler: "nil" or "set"
  readHandler,
  \* position of Serve: "start", "select", "read", "handle", "deferred",
  \* "returned"
  servePc,
  \* what Serve returned: "none", "nil", or the cause of the error
  \* ("read", "decode", "dial")
  serveErr,
  \* whether s.stop is closed
  stopClosed,
  \* the deadline of the listening socket: "unset", "armed", "expired"
  deadline,
  \* the receive buffer and sender of the datagram being processed
  buf, clientAddr,
  \* datagrams received so far, and whether the one being processed was
  \* received after the stop signal
  received, rcvdAfterStop,
  \* the per-transfer sockets dialed, in order
  conns,
  \* the handler goroutines started, in order
  tasks,
  \* the counter of s.wg
  wg,
  \* FALSE once an unrecovered panic has ended the process
  alive

streamVars == <<data, origin, emitted>>

codecVars == <<pkt, wire, decoded, cpc, data, origin, emitted>>

serverVars == <<readHandler, servePc, serveErr, stopClosed, deadline, buf,
                clientAddr, received, rcvdAfterStop, conns, tasks, wg, alive>>

vars == <<pkt, wire, decoded, cpc, data, origin, emitted, readHandler,
          servePc, serveErr, stopClosed, deadline, buf, clientAddr, received, rcvdAfterStop,
          conns, tasks, wg, alive>>

(***************************************************************************)
(* Codec: encode a valid packet, then decode the bytes                     *)
(***************************************************************************)
Blocks == {0, 1, 255, 256, Uint16Mod - 1}

PayloadLens == {0, 1, BlockSize - 1, BlockSize, BlockSize + MaxExtra}

ValidPackets ==
  {ReadReq(f, m) : f \in {StrA, StrATxt},
                   m \in {StrOctet, StrNetascii, StrMail}}
  \cup {Data(b, Pattern(n)) : b \in Blocks, n \in PayloadLens}
  \cup {Ack(b) : b \in Blocks}
  \cup {Err(c, m) : c \in ErrCodes, m \in {<<>>, StrNo}}

NoResult == [err |-> FALSE]

\* no Data value is being encoded repeatedly
StreamIdle ==
  /\ data = Data(0, <<>>)
  /\ origin = Data(0, <<>>)
  /\ emitted = <<>>

\* the server of a codec run: constructed, never served
ServerIdle ==
  /\ readHandler = "nil"
  /\ servePc = "start"
  /\ serveErr = "none"
  /\ stopClosed = FALSE
  /\ deadline = "unset"
  /\ buf = <<>>
  /\ clientAddr = "none"
  /\ received = 0
  /\ rcvdAfterStop = FALSE
  /\ conns = <<>>
  /\ tasks = <<>>
  /\ wg = 0
  /\ alive = TRUE

InitCodec ==
  /\ pkt \in ValidPackets
  /\ wire = NoResult
  /\ decoded = NoResult
  /\ cpc = "init"
  /\ StreamIdle
  /\ ServerIdle

\* the caller encodes pkt
Marshal ==
  /\ cpc = "init"
  /\ wire' = MarshalBinary(pkt)
  /\ cpc' = IF wire'.err THEN "failed" ELSE "marshalled"
  /\ UNCHANGED <<pkt, decoded>>
  /\ UNCHANGED streamVars
  /\ UNCHANGED serverVars

\* the caller decodes the produced bytes on a zero value of the kind
Unmarshal ==
  /\ cpc = "marshalled"
  /\ decoded' = UnmarshalBinary(ZeroValue(pkt.kind), wire.bytes)
  /\ cpc' = "unmarshalled"
  /\ UNCHANGED <<pkt, wire>>
  /\ UNCHANGED streamVars
  /\ UNCHANGED serverVars

NextCodec == Marshal \/ Unmarshal

SpecCodec == InitCodec /\ [][NextCodec]_vars

(***************************************************************************)
(* Decoding of received bytes: UnmarshalBinary on a value that already     *)
(* holds something, applied to well-formed and malformed inputs            *)
(***************************************************************************)
StrBlksize == <<98, 108, 107, 115, 105, 122, 101>>
StrTsize == <<116, 115, 105, 122, 101>>
Str1024 == <<49, 48, 50, 52>>
Str0 == <<48>>

\* an option field as it follows the mode: the bytes and a NUL
Field(x) == x \o <<0>>

\* the prefixes of s of the lengths lens
Prefixes(s, lens) == {SubSeq(s, 1, n) : n \in lens \cap (0 .. Len(s))}

RawNames == {<<>>, StrA, StrATxt}

RawModes == {<<>>, StrOctet, StrMail}

\* what the receivers hold before the call
HeldReadReq == ReadReq(<<>>, <<>>)
HeldData == Data(7, <<9>>)
HeldAck == Ack(7)
HeldErr == Err(ErrDiskFull, StrA)

RawReadReqs ==
  {RRQBytes(f, m) : f \in RawNames, m \in RawModes}
  \cup {<<0, OpRRQ>> \o f : f \in RawNames}
  \cup {<<0, OpRRQ>> \o f \o <<0>> \o m : f \in RawNames, m \in RawModes}
  \cup {RRQBytes(StrA, StrOctet) \o Field(StrBlksize) \o Field(Str1024),
        RRQBytes(StrA, StrOctet) \o Field(StrBlksize) \o Field(Str1024)
          \o Field(StrTsize) \o Field(Str0),
        RRQBytes(StrA, StrOctet) \o Field(StrBlksize) \o Field(Str1024)
          \o Field(StrBlksize) \o Field(Str0),
        RRQBytes(StrA, StrOctet) \o Field(StrBlksize),
        RRQBytes(StrA, StrOctet) \o Field(StrBlksize) \o Field(Str1024)
          \o Field(StrTsize)}

RawDatas ==
  UNION {Prefixes(<<0, o>> \o BigEndian16(b) \o Pattern(BlockSize + MaxExtra),
                  {0, 1, 2, 3, 4, 5, DatagramSize, DatagramSize + MaxExtra}) :
         o \in {OpData, OpAck}, b \in {1, Uint16Mod - 1}}

RawAcks ==
  UNION {Prefixes(<<0, o>> \o BigEndian16(b) \o <<9>>, 0 .. 5) :
         o \in {OpAck, OpData}, b \in {0, 258, Uint16Mod - 1}}

RawErrs ==
  UNION {Prefixes(<<0, o>> \o BigEndian16(c), 0 .. 3)
         \cup {<<0, o>> \o BigEndian16(c) \o m,
               <<0, o>> \o BigEndian16(c) \o m \o <<0>>} :
         o \in {OpErr, OpAck}, c \in {ErrNotFound, ErrNoUser},
         m \in {<<>>, StrNo}}

InitDecode ==
  /\ \/ pkt = HeldReadReq /\ \E r \in RawReadReqs : wire = [bytes |-> r, err |-> FALSE]
     \/ pkt = HeldData /\ \E r \in RawDatas : wire = [bytes |-> r, err |-> FALSE]
     \/ pkt = HeldAck /\ \E r \in RawAcks : wire = [bytes |-> r, err |-> FALSE]
     \/ pkt = HeldErr /\ \E r \in RawErrs : wire = [bytes |-> r, err |-> FALSE]
  /\ decoded = NoResult
  /\ cpc = "raw"
  /\ StreamIdle
  /\ ServerIdle

\* the caller decodes the received bytes on the value it holds
UnmarshalRaw ==
  /\ cpc = "raw"
  /\ decoded' = UnmarshalBinary(pkt, wire.bytes)
  /\ cpc' = "decodedRaw"
  /\ UNCHANGED <<pkt, wire>>
  /\ UNCHANGED streamVars
  /\ UNCHANGED serverVars

NextDecode == Marshal \/ Unmarshal \/ UnmarshalRaw

SpecDecode == (InitCodec \/ InitDecode) /\ [][NextDecode]_vars

(***************************************************************************)
(* Repeated encoding: MarshalBinary called again and again on one Data     *)
(* value whose Payload is a source of bytes                                *)
(***************************************************************************)
\* calls made on one Data value
MaxCalls == 4

StartBlocks == {0, Uint16Mod - 2, Uint16Mod - 1}

SourceLens ==
  {0, 1, BlockSize - 1, BlockSize, BlockSize + MaxExtra, 1000,
   2 * BlockSize, 2 * BlockSize + MaxExtra}

InitStream ==
  /\ \E b \in StartBlocks, n \in SourceLens : origin = Data(b, Pattern(n))
  /\ data = origin
  /\ emitted = <<>>
  /\ pkt = Ack(0)
  /\ wire = NoResult
  /\ decoded = NoResult
  /\ cpc = "stream"
  /\ ServerIdle

\* one more call of data.MarshalBinary()
MarshalNext ==
  /\ cpc = "stream"
  /\ Len(emitted) < MaxCalls
  /\ LET r == DataMarshalBinary(data)
     IN /\ ~r.err
        /\ data' = r.value
        /\ emitted' = Append(emitted, r.bytes)
  /\ UNCHANGED <<pkt, wire, decoded, cpc, origin>>
  /\ UNCHANGED serverVars

SpecStream == InitStream /\ [][MarshalNext]_vars

(***************************************************************************)
(* Server: NewServer, Serve, process, handlePacket and the goroutines      *)
(***************************************************************************)
\* the buffer of process after ReadFrom copied the datagram d into it
ReceiveBuffer(d) ==
  [i \in 1 .. DatagramSize |-> IF i <= Len(d) THEN d[i] ELSE 0]

\* NewServer(opts...): with or without WithReader
InitServer ==
  /\ readHandler \in {"nil", "set"}
  /\ servePc = "start"
  /\ serveErr = "none"
  /\ stopClosed = FALSE
  /\ deadline = "unset"
  /\ buf = <<>>
  /\ clientAddr = "none"
  /\ received = 0
  /\ rcvdAfterStop = FALSE
  /\ conns = <<>>
  /\ tasks = <<>>
  /\ wg = 0
  /\ alive = TRUE
  /\ pkt = Ack(0)
  /\ wire = NoResult
  /\ decoded = NoResult
  /\ cpc = "idle"
  /\ StreamIdle

\* Serve up to the loop: the stop channel is made, the deadline set once
ServeStart ==
  /\ alive
  /\ servePc = "start"
  /\ stopClosed' = FALSE
  /\ deadline' = "armed"
  /\ servePc' = "select"
  /\ UNCHANGED <<readHandler, serveErr, buf, clientAddr, received,
                 rcvdAfterStop, conns, tasks, wg, alive>>
  /\ UNCHANGED codecVars

\* the select of the loop: return nil when stop is closed, else process
Select ==
  /\ alive
  /\ servePc = "select"
  /\ IF stopClosed
       THEN servePc' = "returned" /\ serveErr' = "nil"
       ELSE servePc' = "read" /\ serveErr' = serveErr
  /\ UNCHANGED <<readHandler, stopClosed, deadline, buf, clientAddr,
                 received, rcvdAfterStop, conns, tasks, wg, alive>>
  /\ UNCHANGED codecVars

\* ReadFrom returning datagrams whatever the deadline
ReadFromIgnoringDeadline ==
  /\ alive
  /\ servePc = "read"
  /\ received < MaxDatagrams
  /\ \E d \in Datagrams, a \in Addrs :
       /\ buf' = ReceiveBuffer(d)
       /\ clientAddr' = a
  /\ received' = received + 1
  /\ rcvdAfterStop' = stopClosed
  /\ servePc' = "handle"
  /\ UNCHANGED <<readHandler, serveErr, stopClosed, deadline, conns, tasks,
                 wg, alive>>
  /\ UNCHANGED codecVars

\* process: ReadFrom returns a datagram into a fresh buffer
ReadFrom ==
  /\ alive
  /\ servePc = "read"
  /\ deadline = "armed"
  /\ received < MaxDatagrams
  /\ \E d \in Datagrams, a \in Addrs :
       /\ buf' = ReceiveBuffer(d)
       /\ clientAddr' = a
  /\ received' = received + 1
  /\ rcvdAfterStop' = stopClosed
  /\ servePc' = "handle"
  /\ UNCHANGED <<readHandler, serveErr, stopClosed, deadline, conns, tasks,
                 wg, alive>>
  /\ UNCHANGED codecVars

\* process: ReadFrom fails once the deadline has passed; Serve returns the
\* error
ReadFromTimeout ==
  /\ alive
  /\ servePc = "read"
  /\ deadline = "expired"
  /\ servePc' = "returned"
  /\ serveErr' = "read"
  /\ UNCHANGED <<readHandler, stopClosed, deadline, buf, clientAddr,
                 received, rcvdAfterStop, conns, tasks, wg, alive>>
  /\ UNCHANGED codecVars

\* time passes the deadline set at the start of Serve
DeadlinePasses ==
  /\ alive
  /\ deadline = "armed"
  /\ deadline' = "expired"
  /\ UNCHANGED <<readHandler, servePc, serveErr, stopClosed, buf,
                 clientAddr, received, rcvdAfterStop, conns, tasks, wg,
                 alive>>
  /\ UNCHANGED codecVars

\* Serve returns the error err of process
ServeReturns(err) ==
  /\ servePc' = "returned"
  /\ serveErr' = err
  /\ buf' = <<>>
  /\ UNCHANGED <<conns, tasks, wg>>

\* go func() { ... }(): the caller goes on whatever the goroutine does
GoCallerWaits(task) == task.state \in {"done"}

GoCallerProceeds(task) == TRUE

\* a switch that takes write requests for read requests
CaseOpRRQOrWRQ(code) == code \in {OpRRQ, OpWRQ}

\* switch code { case OpRRQ: ... }: the only case
CaseOpRRQ(code) == code = OpRRQ

\* handlePacket up to the go statement
HandlePacket ==
  /\ alive
  /\ servePc = "handle"
  /\ LET code == BinaryRead(buf, "OpCode", 0)
     IN IF code.err THEN ServeReturns("decode")
        ELSE IF CaseOpRRQ(code.val)
          THEN LET rrq == ReadReqUnmarshalBinary(ReadReq(<<>>, <<>>), buf)
               IN IF rrq.err THEN ServeReturns("decode")
                  ELSE \E dialed \in BOOLEAN :
                    IF ~dialed THEN ServeReturns("dial")
                    ELSE
                      /\ conns' = Append(conns, [addr |-> clientAddr,
                                                 open |-> TRUE,
                                                 written |-> <<>>])
                      /\ wg' = wg + 1
                      /\ tasks' = Append(tasks,
                           [addr |-> clientAddr,
                            filename |-> rrq.value.Filename,
                            conn |-> Len(conns) + 1,
                            state |-> "spawned",
                            result |-> "none",
                            afterStop |-> rcvdAfterStop])
                      /\ servePc' = "deferred"
                      /\ UNCHANGED <<serveErr, buf>>
          ELSE /\ servePc' = "select"
               /\ buf' = <<>>
               /\ UNCHANGED <<serveErr, conns, tasks, wg>>
  /\ UNCHANGED <<readHandler, stopClosed, deadline, clientAddr, received,
                 rcvdAfterStop, alive>>
  /\ UNCHANGED codecVars

\* handlePacket returns nil after the go statement: the deferred function
\* closes the socket dialed for this request
HandlePacketReturn ==
  /\ alive
  /\ servePc = "deferred"
  /\ GoCallerProceeds(tasks[Len(tasks)])
  /\ conns' = [conns EXCEPT ![Len(conns)].open = FALSE]
  /\ servePc' = "select"
  /\ buf' = <<>>
  /\ UNCHANGED <<readHandler, serveErr, stopClosed, deadline, clientAddr,
                 received, rcvdAfterStop, tasks, wg, alive>>
  /\ UNCHANGED codecVars

\* the goroutine calls s.opts.readHandler: a nil handler panics, and the
\* unrecovered panic ends the process
TaskCallsHandler(t) ==
  /\ alive
  /\ tasks[t].state = "spawned"
  /\ IF readHandler = "nil"
       THEN /\ tasks' = [tasks EXCEPT ![t].state = "panicked"]
            /\ alive' = FALSE
       ELSE /\ tasks' = [tasks EXCEPT ![t].state = "inHandler"]
            /\ alive' = alive
  /\ UNCHANGED <<readHandler, servePc, serveErr, stopClosed, deadline, buf,
                 clientAddr, received, rcvdAfterStop, conns, wg>>
  /\ UNCHANGED codecVars

\* the read handler returns; the goroutine drops the result and ends
HandlerReturns(t) ==
  /\ alive
  /\ tasks[t].state = "inHandler"
  /\ tasks' = [tasks EXCEPT ![t].state = "done",
                            ![t].result = HandlerResult(tasks[t].filename)]
  /\ UNCHANGED <<readHandler, servePc, serveErr, stopClosed, deadline, buf,
                 clientAddr, received, rcvdAfterStop, conns, wg, alive>>
  /\ UNCHANGED codecVars

\* the steps of Serve itself
ServeStep ==
  \/ ServeStart
  \/ Select
  \/ ReadFrom
  \/ ReadFromTimeout
  \/ HandlePacket
  \/ HandlePacketReturn

TaskStep ==
  \E t \in 1 .. MaxDatagrams :
    /\ t \in DOMAIN tasks
    /\ TaskCallsHandler(t) \/ HandlerReturns(t)

NextServer == ServeStep \/ DeadlinePasses \/ TaskStep

SpecServer == InitServer /\ [][NextServer]_vars

\* the stop signal: s.stop is closed while Serve runs
Stop ==
  /\ alive
  /\ servePc \in {"select", "read", "handle", "deferred"}
  /\ ~stopClosed
  /\ stopClosed' = TRUE
  /\ UNCHANGED <<readHandler, servePc, serveErr, deadline, buf, clientAddr,
                 received, rcvdAfterStop, conns, tasks, wg, alive>>
  /\ UNCHANGED codecVars

NextStop == ServeStep \/ DeadlinePasses \/ TaskStep \/ Stop

SpecStop == InitServer /\ [][NextStop]_vars

(***************************************************************************)
(* Properties                                                              *)
(***************************************************************************)
\* the wire form of a Data packet and of an Error packet's fixed part
DataBytes(b, payload) == <<0, OpData>> \o BigEndian16(b) \o payload

ErrHeader(c) == <<0, OpErr>> \o BigEndian16(c)

Running(t) == tasks[t].state \in {"spawned", "inHandler"}

Terminal(t) == tasks[t].state \in {"done", "panicked"}

ConnOf(t) == conns[tasks[t].conn]

\* C1: for each of the four packet kinds and every valid value p,
\* MarshalBinary(p) succeeds, UnmarshalBinary of the produced bytes succeeds,
\* and the caller then holds a packet equal to p.
RoundTrip ==
  /\ cpc # "init" => ~wire.err
  /\ cpc = "unmarshalled" => ~decoded.err /\ decoded.value = pkt

\* C2: a read request for a.txt, for which the read capability supplies 1000
\* bytes, is answered with Data block 1 of 512 bytes and Data block 2 of 488
\* bytes and no other Data packet: once the request's task has finished,
\* exactly these two packets were written to the client's socket.
TwoBlockTransfer ==
  \A t \in DOMAIN tasks :
    (tasks[t].filename = StrATxt /\ tasks[t].state = "done")
      => ConnOf(t).written =
           <<DataBytes(1, SubSeq(Pattern(1000), 1, BlockSize)),
             DataBytes(2, SubSeq(Pattern(1000), BlockSize + 1, 1000))>>

\* C3: Serve never returns an error because of the content of a received
\* datagram; a datagram that cannot be decoded is dropped.
UndecodableIsDropped == serveErr # "decode"

\* C4: two identical read requests from one client address, received before
\* any reply was sent, start exactly one session: never two handler tasks
\* for the same address and file name while nothing was sent to the first.
OneSessionPerRequest ==
  \A i, j \in DOMAIN tasks :
    (i < j /\ tasks[i].addr = tasks[j].addr
           /\ tasks[i].filename = tasks[j].filename)
      => ConnOf(i).written # <<>>

\* C5: a failure inside one request's handler task (the read handler
\* returning an error, or faulting because no read handler was configured)
\* never stops the accept loop.
HandlerFailureIsLocal ==
  \A t \in DOMAIN tasks :
    (tasks[t].state = "panicked" \/ tasks[t].result = "notfound") => alive

\* C6: once the stop signal is given, no datagram received afterwards starts
\* a handler task, and Serve returns nil.
StopPreventsAccepts ==
  /\ \A t \in DOMAIN tasks : ~tasks[t].afterStop
  /\ (stopClosed /\ servePc = "returned") => serveErr = "nil"

\* C7: the accept loop never waits for a transfer: once handlePacket has
\* started the task of a read request it can return at once, whether or not
\* the read handler has finished or ever will.
AcceptLoopNeverWaits ==
  (alive /\ servePc = "deferred") => ENABLED HandlePacketReturn

\* C7 witness: two handlers that have not returned, the second dispatched
\* while the first was running, and Serve back in the receive.
TwoHandlersRunning ==
  /\ Len(tasks) = 2
  /\ tasks[1].state = "inHandler"
  /\ tasks[2].state = "inHandler"
  /\ servePc = "read"

\* C8: a read request for a file the read capability reports as not found is
\* answered with exactly one Error packet of code NotFound and no Data
\* packet, and afterwards no open socket is left for it.
NotFoundIsReported ==
  \A t \in DOMAIN tasks :
    (tasks[t].state = "done" /\ tasks[t].result = "notfound")
      => /\ Len(ConnOf(t).written) = 1
         /\ SubSeq(ConnOf(t).written[1], 1, 4) = ErrHeader(ErrNotFound)
         /\ ~ConnOf(t).open

\* C9: a read session whose Data block 3 is never acknowledged has sent
\* block 3 three times and block 4 never when it ends.
BlockThreeSentThrice ==
  \A t \in DOMAIN tasks :
    (tasks[t].filename = StrBig /\ tasks[t].state = "done")
      => /\ Cardinality({k \in DOMAIN ConnOf(t).written :
              SubSeq(ConnOf(t).written[k], 1, 4) = DataBytes(3, <<>>)}) = 3
         /\ \A k \in DOMAIN ConnOf(t).written :
              SubSeq(ConnOf(t).written[k], 1, 4) # DataBytes(4, <<>>)

\* C10: the socket dialed for a read request is open while the request's
\* handler task is running and closed once the task has ended.
SocketLivesWithTask ==
  \A t \in DOMAIN tasks :
    /\ Running(t) => ConnOf(t).open
    /\ Terminal(t) => ~ConnOf(t).open

NulFree(x) == \A i \in DOMAIN x : x[i] # 0

Decoding(kind) == cpc = "decodedRaw" /\ pkt.kind = kind

\* C11: for every file name F and mode M without NUL bytes,
\* ReadReq.UnmarshalBinary of opcode + F + 0x00 + M + 0x00 returns no error
\* and sets Filename to F and Mode to M; of a request with no 0x00 after the
\* opcode it returns an error.
ReadReqDecodesNameAndMode ==
  Decoding("RRQ") =>
    /\ \A f \in RawNames, m \in RawModes :
         wire.bytes = <<0, OpRRQ>> \o f \o <<0>> \o m \o <<0>>
           => /\ ~decoded.err
              /\ decoded.value.Filename = f
              /\ decoded.value.Mode = m
    /\ NulFree(SliceFrom(wire.bytes, 2)) => decoded.err

\* C11 witness: a.txt and octet were extracted
DecodedATxtOctet ==
  /\ Decoding("RRQ")
  /\ wire.bytes = <<0, OpRRQ>> \o StrATxt \o <<0>> \o StrOctet \o <<0>>
  /\ ~decoded.err
  /\ decoded.value.Filename = StrATxt

\* C12: when a read request carries option fields after the mode,
\* ReadReq.UnmarshalBinary stores every complete name/value pair in Options,
\* and when a trailing option name has no value of its own it returns an
\* error and never records that name with an empty value.
OptionsArePaired ==
  Decoding("RRQ") =>
    /\ wire.bytes = RRQBytes(StrA, StrOctet) \o Field(StrBlksize)
                      \o Field(Str1024) \o Field(StrTsize) \o Field(Str0)
         => /\ ~decoded.err
            /\ decoded.value.Options = (StrBlksize :> Str1024)
                                         @@ (StrTsize :> Str0)
    /\ wire.bytes \in
         {RRQBytes(StrA, StrOctet) \o Field(StrBlksize),
          RRQBytes(StrA, StrOctet) \o Field(StrBlksize) \o Field(Str1024)
            \o Field(StrTsize)}
         => /\ decoded.err
            /\ \A k \in DOMAIN decoded.value.Options :
                 decoded.value.Options[k] # <<>>

\* the block number in bytes 2..3 of an emitted packet
BlockOf(p) == p[3] * 256 + p[4]

PayloadOf(p) == SliceFrom(p, 4)

RECURSIVE Joined(_, _)
\* the payloads of the first n emitted packets, one after the other
Joined(ps, n) == IF n = 0 THEN <<>> ELSE Joined(ps, n - 1) \o PayloadOf(ps[n])

\* the calls whose packet carried fewer than 512 payload bytes
ShortCalls == {k \in DOMAIN emitted : Len(PayloadOf(emitted[k])) < 512}

\* C14: repeated Data.MarshalBinary calls split a source of N bytes into
\* packets of at most 516 bytes; every packet before the first short one
\* carries exactly 512 payload bytes, the first short one carries N mod 512
\* bytes, and the payloads up to it, joined in order, are the source.
SourceIsSplit ==
  LET src == origin.Payload
      last == IF ShortCalls = {} THEN Len(emitted) + 1
              ELSE CHOOSE k \in ShortCalls : \A j \in ShortCalls : k <= j
  IN /\ \A k \in DOMAIN emitted :
          /\ Len(emitted[k]) <= 516
          /\ Len(emitted[k]) >= 4
          /\ k < last => Len(PayloadOf(emitted[k])) = 512
     /\ ShortCalls = {} =>
          Joined(emitted, Len(emitted)) = SubSeq(src, 1, 512 * Len(emitted))
     /\ ShortCalls # {} =>
          /\ Len(PayloadOf(emitted[last])) = Len(src) % 512
          /\ Joined(emitted, last) = src

\* C14 witness: a source of two full blocks was sent as two full packets and
\* a third with an empty payload
EmptyLastPacket ==
  /\ Len(origin.Payload) = 2 * 512
  /\ Len(emitted) = 3
  /\ Len(PayloadOf(emitted[2])) = 512
  /\ Len(emitted[3]) = 4

\* whether the bytes p start with the 16-bit big-endian opcode op
HasOpcode(p, op) == Len(p) >= 2 /\ p[1] = 0 /\ p[2] = op

\* C15: Data.UnmarshalBinary returns an error when the input is shorter than
\* 4 bytes or its opcode is not DATA, and for every input of 4..516 bytes
\* with opcode DATA it succeeds, Block being bytes 2..3 (big-endian) and
\* Payload the remaining bytes.
DataDecodes ==
  Decoding("DATA") =>
    LET p == wire.bytes
    IN /\ (Len(p) < 4 \/ ~HasOpcode(p, 3)) => decoded.err
       /\ (Len(p) >= 4 /\ Len(p) <= 516 /\ HasOpcode(p, 3))
            => /\ ~decoded.err
               /\ decoded.value.Block = p[3] * 256 + p[4]
               /\ decoded.value.Payload = SliceFrom(p, 4)

\* C16: for every block number b, Ack.MarshalBinary returns no error and
\* exactly the 4 bytes 0x00 0x04 and b as a 16-bit big-endian number.
AckEncodesBlock ==
  (pkt.kind = "ACK" /\ cpc \in {"failed", "marshalled", "unmarshalled"})
    => /\ ~wire.err
       /\ wire.bytes = <<0, 4, pkt.Block \div 256, pkt.Block % 256>>

\* C17: Ack.UnmarshalBinary returns an error and leaves the Ack unchanged
\* whenever the input is shorter than 4 bytes or its opcode is not ACK; for
\* every 4-byte input with opcode ACK it succeeds and sets the Ack to bytes
\* 2..3 (big-endian).
AckDecodes ==
  Decoding("ACK") =>
    LET p == wire.bytes
    IN /\ (Len(p) < 4 \/ ~HasOpcode(p, 4))
            => decoded.err /\ decoded.value = pkt
       /\ (Len(p) = 4 /\ HasOpcode(p, 4))
            => /\ ~decoded.err
               /\ decoded.value.Block = p[3] * 256 + p[4]

\* C17 witness: 00 04 01 02 was decoded as the Ack of block 258, replacing
\* the value held before
AckDecoded258 ==
  /\ Decoding("ACK")
  /\ wire.bytes = <<0, 4, 1, 2>>
  /\ ~decoded.err
  /\ decoded.value.Block = 258
  /\ pkt.Block # 258

\* C18: Err.MarshalBinary produces opcode ERROR, the error code (both 2
\* bytes big-endian), the message and one 0x00; Err.UnmarshalBinary fails
\* when the opcode is not ERROR or the message is not terminated by 0x00,
\* and otherwise succeeds, the Err value then holding the code and the
\* message without its terminator.
ErrEncodesAndDecodes ==
  /\ (pkt.kind = "ERR" /\ cpc \in {"failed", "marshalled", "unmarshalled"})
       => /\ ~wire.err
          /\ wire.bytes = <<0, 5, 0, pkt.Error>> \o pkt.Message \o <<0>>
  /\ Decoding("ERR") =>
       LET p == wire.bytes
           terminated == Len(p) >= 5 /\ p[Len(p)] = 0
       IN /\ (~HasOpcode(p, 5) \/ ~terminated) => decoded.err
          /\ (HasOpcode(p, 5) /\ terminated)
               => /\ ~decoded.err
                  /\ decoded.value.Error = p[3] * 256 + p[4]
                  /\ decoded.value.Message = SubSeq(p, 5, Len(p) - 1)

\* C19: the deadline of the listening socket is set once, when Serve
\* starts, and never re-armed: the first receive attempted after it has
\* passed fails and Serve returns a non-nil error, however many datagrams
\* were handled before.
DeadlineEndsServe ==
  [][/\ (deadline' = "armed" /\ deadline # "armed") => servePc = "start"
     /\ deadline = "expired" => deadline' = "expired"
     /\ (deadline = "expired" /\ servePc = "read" /\ servePc' # "read")
          => (servePc' = "returned" /\ serveErr' \notin {"none", "nil"})]_vars

\* C19 witness: Serve handled a datagram and then returned the error of the
\* receive that met the passed deadline
ServedThenTimedOut ==
  /\ received >= 1
  /\ deadline = "expired"
  /\ servePc = "returned"
  /\ serveErr = "read"

\* whether the receive buffer b decodes as a read request: a NUL follows the
\* opcode somewhere
Decodable(b) == \E i \in 3 .. Len(b) : b[i] = 0

\* the bytes of b after the opcode up to the first NUL
NameIn(b) ==
  LET n == CHOOSE i \in 3 .. Len(b) :
             b[i] = 0 /\ \A j \in 3 .. (i - 1) : b[j] # 0
  IN SubSeq(b, 3, n - 1)

\* handlePacket returned without starting or touching anything
NothingStarted == UNCHANGED <<conns, tasks, wg, serveErr>>

\* handlePacket started one task for the request in the buffer
OneTaskStarted ==
  /\ Len(tasks') = Len(tasks) + 1
  /\ SubSeq(tasks', 1, Len(tasks)) = tasks
  /\ tasks'[Len(tasks')].filename = NameIn(buf)
  /\ tasks'[Len(tasks')].state = "spawned"
  /\ Len(conns') = Len(conns) + 1
  /\ wg' = wg + 1

\* C20 as stated: handlePacket returns nil and changes nothing for every
\* datagram that is not a read request, and for every successfully decoded
\* read request it starts exactly one task for the decoded file name.
OnlyReadRequestsStartTasks ==
  [][(servePc = "handle" /\ servePc' # "handle") =>
       IF ~HasOpcode(buf, 1) THEN servePc' = "select" /\ NothingStarted
       ELSE Decodable(buf) => OneTaskStarted]_vars

\* C20 as amended: handlePacket returns nil and changes nothing for every
\* datagram that is not a read request; for every successfully decoded read
\* request whose dial back to the client succeeds it starts exactly one task
\* for the decoded file name, and when the dial fails it returns that error
\* and starts nothing.  A task calls the read handler at most once.
OnlyDialedReadRequestsStartTasks ==
  [][/\ (servePc = "handle" /\ servePc' # "handle") =>
          IF ~HasOpcode(buf, 1) THEN servePc' = "select" /\ NothingStarted
          ELSE Decodable(buf) =>
                 \/ servePc' = "deferred" /\ OneTaskStarted
                 \/ /\ servePc' = "returned"
                    /\ serveErr' = "dial"
                    /\ UNCHANGED <<conns, tasks, wg>>
     /\ \A t \in DOMAIN tasks :
          tasks'[t].state = "inHandler" /\ tasks[t].state # "inHandler"
            => tasks[t].state = "spawned"]_vars

\* C20 witness: of two datagrams handled, one was a read request and started
\* the only task, whose handler is running
OneOfTwoStartedTask ==
  /\ received = 2
  /\ servePc = "select"
  /\ Len(tasks) = 1
  /\ tasks[1].state = "inHandler"
  /\ wg = 1

====
